---- MODULE Spec2Model ----
(***************************************************************************)
(* now-playing (src/src/main.rs): the notifier's event loop                *)
(* (command_run_notifer), the enumeration of media sessions                *)
(* (get_session_infos), the toast child process (send_toast /              *)
(* command_send_toast), the tray thread (windows_thread, wndproc,          *)
(* update_menu) and the media-session provider's callbacks.                *)
(*                                                                         *)
(* Strings that are only compared are TLA+ strings; strings that are       *)
(* tested for emptiness or concatenated (title, subtitle, artist,          *)
(* album_title, the toast lines) are sequences of text pieces, the empty   *)
(* string being << >>.  Option<T> is << >> (None) or << t >> (Some(t)).    *)
(* A registry entry (String, bool) is the pair << source, enabled >>.      *)
(***************************************************************************)
EXTENDS Integers, Sequences, FiniteSets, TLC

VARIABLES
    config,              \* Config.sources behind the Arc<RwLock<Config>>
    configFile,          \* the config.json file
    queue,               \* events sent on event_tx and not yet received
    loopState,           \* "Running" while command_run_notifer runs
    result,              \* what command_run_notifer returned ("none" while it runs)
    pc,                  \* where the loop thread is
    session,             \* the session get_session_infos is working on (1-based)
    attempt,             \* failed get_session_info attempts for that session
    session_infos,       \* the list this pass has enumerated
    idx,                 \* position of the for loop over session_infos (1-based)
    prev_session_infos,  \* the list of the previous pass
    detected,            \* the snapshots this pass found absent from prev_session_infos
    toast,               \* Some(the Toast of this iteration of the for loop), or None
    muted,               \* history, kept under HistorySpec only: Some(the identities
                         \* recorded by a pass while their source was disabled), or None
    child,               \* the send-toast child process
    tray,                \* the tray thread: starting, running, failed or stopped
    menuOpen,            \* the popup menu is on screen
    menuItems,           \* the source items of the menu on screen
    callbacks            \* MediaPropertiesChanged handlers registered per session

vars == << config, configFile, queue, loopState, result, pc,
           session, attempt, session_infos, idx, prev_session_infos, detected,
           toast, muted, child, tray, menuOpen, menuItems, callbacks >>

loopVars == << pc, session, attempt, session_infos, idx,
               prev_session_infos, detected, toast, muted >>

trayVars == << tray, menuOpen, menuItems >>

----------------------------------------------------------------------------
(* Bounds of the model *)

MaxHandlers == 2      \* MediaPropertiesChanged handlers registered in a run
MaxQueue == 1         \* the tray and the provider send only up to this length

(* Program constants *)

MaxAttempts == 20     \* for _ in 0..20
ToastSeconds == 3     \* Duration::new(3, 0)

----------------------------------------------------------------------------
(* Data *)

None == << >>
Some(x) == << x >>

Thumbnail(mime_type, bytes) == [mime_type |-> mime_type, bytes |-> bytes]

SessionInfo(source, title, subtitle, artist, album_title, thumbnail) ==
    [source_app_user_mode_id |-> source, title |-> title, subtitle |-> subtitle,
     artist |-> artist, album_title |-> album_title, thumbnail |-> thumbnail]

\* What a successful get_session_info can return: the provider's sessions
\* carry any metadata, so each read yields any of these.
Snapshots ==
    { SessionInfo("app.a", <<"Song">>, << >>, <<"Artist">>, <<"Album">>, None),
      SessionInfo("app.a", <<"Song">>, << >>, <<"Artist">>, <<"Album">>,
                  Some(Thumbnail("image/png", <<1>>))),
      SessionInfo("app.a", <<"Tune">>, <<"Live">>, <<"Artist">>, <<"Album">>, None),
      SessionInfo("app.b", <<"Song">>, << >>, <<"Artist">>, <<"Album">>, None) }

\* only the source is compared
SameSource(a, b) == a.source_app_user_mode_id = b.source_app_user_mode_id

\* #[derive(PartialEq)]: every field is compared, the thumbnail too
DerivedEq(a, b) == a = b

\* impl PartialEq for SessionInfo
SessionInfoEq(a, b) ==
    /\ a.source_app_user_mode_id = b.source_app_user_mode_id
    /\ a.title = b.title
    /\ a.subtitle = b.subtitle
    /\ a.artist = b.artist
    /\ a.album_title = b.album_title

\* the identity of a snapshot: the fields that impl PartialEq compares
Identity(s) ==
    << s.source_app_user_mode_id, s.title, s.subtitle, s.artist, s.album_title >>

\* Vec::contains, through PartialEq
Contains(list, x) == \E j \in 1..Len(list) : SessionInfoEq(list[j], x)

\* only the enabled entries are looked at
FindEnabledSource(srcs, id) ==
    IF \E j \in 1..Len(srcs) : srcs[j] = << id, TRUE >>
    THEN CHOOSE j \in 1..Len(srcs) :
            /\ srcs[j] = << id, TRUE >>
            /\ \A m \in 1..(j - 1) : srcs[m] # << id, TRUE >>
    ELSE 0

\* sources.iter().find(|(source, _)| source == id): the position of the first
\* entry of that source, 0 for Option::None
FindSource(srcs, id) ==
    IF \E j \in 1..Len(srcs) : srcs[j][1] = id
    THEN CHOOSE j \in 1..Len(srcs) :
            /\ srcs[j][1] = id
            /\ \A m \in 1..(j - 1) : srcs[m][1] # id
    ELSE 0

\* the enabled flag is not looked at
IsEnabledAlways(srcs, found) == TRUE

\* Some((_, enabled)) with *enabled, for the entry sources.iter().find returned
IsEnabled(srcs, found) == srcs[found][2]

\* a new source starts disabled
NewEntryDisabled(source) == << source, FALSE >>

\* the entry pushed for a source that find did not return
NewEntry(source) == << source, TRUE >>

\* the " U+2013 " of format!("{} U+2013 {}", title, subtitle): space, en dash, space
Separator == <<" ", "U+2013", " ">>

\* the separator and the subtitle are appended whether or not the subtitle
\* is empty
MakeToastJoined(s) ==
    [duration |-> ToastSeconds,
     source_app_user_mode_id |-> s.source_app_user_mode_id,
     line_1 |-> s.title \o Separator \o s.subtitle,
     line_2 |-> s.album_title,
     line_3 |-> s.artist,
     thumbnail |-> s.thumbnail]

\* the Toast literal of the Update handler
MakeToast(s) ==
    [duration |-> ToastSeconds,
     source_app_user_mode_id |-> s.source_app_user_mode_id,
     line_1 |-> IF s.subtitle = << >> THEN s.title
                ELSE s.title \o Separator \o s.subtitle,
     line_2 |-> s.album_title,
     line_3 |-> s.artist,
     thumbnail |-> s.thumbnail]

\* The text of config.json is a sequence of JSON tokens, each a pair of a
\* kind and its spelling
Punct(c) == << "punct", c >>
Str(s) == << "string", s >>
Bool(b) == << "bool", IF b THEN "true" ELSE "false" >>

\* one (String, bool) tuple: ["source", true]
EntryJson(e) == << Punct("["), Str(e[1]), Punct(","), Bool(e[2]), Punct("]") >>

\* the elements of the sources array, separated by commas
RECURSIVE EntriesJson(_)
EntriesJson(srcs) ==
    IF srcs = << >> THEN << >>
    ELSE EntryJson(Head(srcs))
         \o (IF Tail(srcs) = << >> THEN << >> ELSE << Punct(",") >>)
         \o EntriesJson(Tail(srcs))

\* serde_json::to_string_pretty(&Config): {"sources": [[s, b], ...]}
ToStringPretty(srcs) ==
    << Punct("{"), Str("sources"), Punct(":"), Punct("[") >>
    \o EntriesJson(srcs)
    \o << Punct("]"), Punct("}") >>

\* serde_json::from_str::<Config>: Some(sources) for the text of an object
\* whose "sources" is an array of [string, bool] arrays, None for an Err
FromStr(text) ==
    LET n == Len(text)
        body == SubSeq(text, 5, n - 2)
        m == Len(body)
        count == (m + 1) \div 6
        EntryOk(k) ==
            LET o == 6 * (k - 1)
            IN  /\ body[o + 1] = Punct("[")
                /\ body[o + 2][1] = "string"
                /\ body[o + 3] = Punct(",")
                /\ body[o + 4] \in {Bool(TRUE), Bool(FALSE)}
                /\ body[o + 5] = Punct("]")
                /\ k < count => body[o + 6] = Punct(",")
    IN  IF /\ n >= 6
           /\ SubSeq(text, 1, 4) = << Punct("{"), Str("sources"), Punct(":"), Punct("[") >>
           /\ SubSeq(text, n - 1, n) = << Punct("]"), Punct("}") >>
           /\ m = 0 \/ ((m + 1) % 6 = 0 /\ \A k \in 1..count : EntryOk(k))
        THEN Some([k \in 1..count |->
                      << body[6 * (k - 1) + 2][2], body[6 * (k - 1) + 4] = Bool(TRUE) >>])
        ELSE None

\* only the enabled entries are written
SerializeEnabled(srcs) ==
    LET Enabled(e) == e[2]
    IN  [exists |-> TRUE, text |-> ToStringPretty(SelectSeq(srcs, Enabled))]

\* fs::write(config_path, to_string_pretty(config)): the file is created or
\* truncated and holds that text
Serialize(srcs) == [exists |-> TRUE, text |-> ToStringPretty(srcs)]

\* fs::read_to_string + serde_json::from_str::<Config>, else Config { sources: vec![] }
LoadConfig(file) ==
    IF file.exists /\ FromStr(file.text) # None
    THEN FromStr(file.text)[1]
    ELSE << >>

\* there is no config.json
NoFile == [exists |-> FALSE, text |-> << >>]

\* a write that failed after the file was truncated
CorruptFile == [exists |-> TRUE, text |-> << >>]

\* config.json as the program may find it at startup
InitialFiles ==
    { NoFile,
      Serialize(<< <<"app.b", TRUE>>, <<"app.a", FALSE>> >>) }

----------------------------------------------------------------------------
\* the program after main has loaded the config and before its threads run
Start ==
    /\ configFile \in InitialFiles
    /\ config = LoadConfig(configFile)
    /\ queue = << >>
    /\ loopState = "Running"
    /\ result = "none"
    /\ pc = "start"
    /\ session = 0
    /\ attempt = 0
    /\ session_infos = << >>
    /\ idx = 0
    /\ prev_session_infos = << >>
    /\ detected = << >>
    /\ toast = None
    /\ child = "none"
    /\ tray = "starting"
    /\ menuOpen = FALSE
    /\ menuItems = << >>
    /\ callbacks = [k \in 1..MaxHandlers |-> 0]

\* no history is kept
Init == Start /\ muted = None

\* command_run_notifer returns Err(e): main returns and the process ends
Abort(e) ==
    /\ loopState' = "Terminated"
    /\ result' = e

Running == loopState = "Running"

----------------------------------------------------------------------------
(* The loop thread: command_run_notifer *)

\* event_tx.send(e)
Send(q, e) == Append(q, e)

\* the event sent last is handed to the loop
ReceivedLast(q) == q[Len(q)]

\* event_rx.recv(): the event handed to the loop
Received(q) == Head(q)

\* the queue is not seeded
StartupNoSeed ==
    /\ Running /\ pc = "start"
    /\ \/ /\ pc' = "recv"
          /\ UNCHANGED << loopState, result >>
       \/ /\ Abort("Can not get global system media transport controls session manager")
          /\ UNCHANGED pc
    /\ UNCHANGED << muted, config, configFile, queue, session, attempt,
                    session_infos, idx, prev_session_infos, detected, toast,
                    child, trayVars, callbacks >>

\* the session manager is requested, SessionsChanged is subscribed and the
\* queue is seeded; each of the three can fail with `?`
Startup ==
    /\ Running /\ pc = "start"
    /\ \/ /\ queue' = Send(Send(queue, "Update"), "ConfigChanged")
          /\ pc' = "recv"
          /\ UNCHANGED << loopState, result >>
       \/ /\ Abort("Can not get global system media transport controls session manager")
          /\ UNCHANGED << queue, pc >>
    /\ UNCHANGED << muted, config, configFile, session, attempt,
                    session_infos, idx, prev_session_infos, detected, toast,
                    child, trayVars, callbacks >>

\* handlers registered so far, on all sessions
RECURSIVE Registered(_, _)
Registered(cb, n) == IF n = 0 THEN 0 ELSE cb[n] + Registered(cb, n - 1)

\* the iterator over GetSessions() in get_session_infos: it yields the next
\* session, or it is exhausted, get_session_infos returns and the for loop
\* over session_infos starts. The provider reports a further session only
\* while a handler can still be registered
NextSession ==
    /\ attempt' = 0
    /\ \/ /\ Registered(callbacks, MaxHandlers) < MaxHandlers
          /\ pc' = "subscribe" /\ session' = session + 1 /\ idx' = 0
       \/ /\ pc' = "iterate" /\ session' = 0 /\ idx' = 1

\* Event::Update is received and get_session_infos starts: RequestAsync and
\* GetSessions answer, or one of them fails
RecvUpdate ==
    /\ Running /\ pc = "recv" /\ queue # << >> /\ Received(queue) = "Update"
    /\ queue' = Tail(queue)
    /\ session_infos' = << >>
    /\ detected' = << >>
    /\ \/ /\ NextSession
          /\ UNCHANGED << loopState, result >>
       \/ /\ Abort("Can not get session infos")
          /\ UNCHANGED << pc, session, attempt, idx >>
    /\ UNCHANGED << muted, config, configFile, prev_session_infos, toast, child,
                    trayVars, callbacks >>

\* session.MediaPropertiesChanged(handler)?, then the 50 ms sleep
Subscribe ==
    /\ Running /\ pc = "subscribe"
    /\ \/ /\ callbacks' = [callbacks EXCEPT ![session] = @ + 1]
          /\ pc' = "attempt"
          /\ UNCHANGED << loopState, result >>
       \/ /\ Abort("Can not get session infos")
          /\ UNCHANGED << pc, callbacks >>
    /\ UNCHANGED << muted, config, configFile, queue, session, attempt, session_infos,
                    idx, prev_session_infos, detected, toast, child, trayVars >>

\* get_session_info returns Ok: the snapshot is pushed and the retry loop breaks
AttemptOk ==
    /\ Running /\ pc = "attempt"
    /\ \E s \in Snapshots : session_infos' = Append(session_infos, s)
    /\ NextSession
    /\ UNCHANGED << muted, config, configFile, queue, loopState, result,
                    prev_session_infos, detected, toast, child, trayVars, callbacks >>

\* the last failed attempt fails the pass
AttemptErrFatal ==
    /\ Running /\ pc = "attempt"
    /\ IF attempt + 1 < MaxAttempts
       THEN /\ attempt' = attempt + 1
            /\ UNCHANGED << pc, session, idx, loopState, result >>
       ELSE /\ Abort("Can not get session infos")
            /\ UNCHANGED << pc, session, idx, attempt >>
    /\ UNCHANGED << muted, config, configFile, queue, session_infos, prev_session_infos,
                    detected, toast, child, trayVars, callbacks >>

\* get_session_info returns Err: sleep 50 ms and try again, unless this was
\* the last of the MaxAttempts attempts
AttemptErr ==
    /\ Running /\ pc = "attempt"
    /\ IF attempt + 1 < MaxAttempts
       THEN attempt' = attempt + 1 /\ UNCHANGED << pc, session, idx >>
       ELSE NextSession
    /\ UNCHANGED << muted, config, configFile, queue, loopState, result, session_infos,
                    prev_session_infos, detected, toast, child, trayVars, callbacks >>

\* `continue`: the for loop over session_infos goes to its next element
Continue ==
    /\ idx' = idx + 1
    /\ pc' = "iterate"

\* history: the pass has observed snapshot s, so the identities recorded for
\* its source that differ from the identity of s are no longer the recorded
\* state of that source
Observed(m, s) ==
    IF m = None THEN None
    ELSE Some({ x \in m[1] : x[1] = s.source_app_user_mode_id => x = Identity(s) })

\* history: the pass has ended and recorded list; the identities of the
\* snapshots of list whose source has a disabled entry in srcs are added
Recorded(m, list, srcs) ==
    IF m = None THEN None
    ELSE Some(m[1] \cup
              { Identity(list[j]) : j \in { n \in 1..Len(list) :
                    \E e \in 1..Len(srcs) :
                        srcs[e] = << list[n].source_app_user_mode_id, FALSE >> } })

\* one iteration of the for loop over session_infos, up to the end of the
\* block that holds config.write(): the snapshot is skipped when
\* prev_session_infos contains it; an unknown source is pushed enabled and
\* ConfigChanged is sent; a disabled source is skipped; otherwise the Toast is
\* built
Check ==
    /\ Running /\ pc = "iterate" /\ idx <= Len(session_infos)
    /\ LET session_info == session_infos[idx]
           source == session_info.source_app_user_mode_id
           found == FindSource(config, source)
       IN  IF Contains(prev_session_infos, session_info)
           THEN /\ Continue
                /\ UNCHANGED << config, queue, detected, toast >>
           ELSE /\ detected' = Append(detected, session_info)
                /\ IF found = 0
                   THEN /\ config' = Append(config, NewEntry(source))
                        /\ queue' = Send(queue, "ConfigChanged")
                        /\ toast' = Some(MakeToast(session_info))
                        /\ pc' = "toast"
                        /\ idx' = idx
                   ELSE IF IsEnabled(config, found)
                   THEN /\ toast' = Some(MakeToast(session_info))
                        /\ pc' = "toast"
                        /\ idx' = idx
                        /\ UNCHANGED << config, queue >>
                   ELSE /\ Continue
                        /\ UNCHANGED << config, queue, toast >>
    /\ muted' = Observed(muted, session_infos[idx])
    /\ UNCHANGED << configFile, loopState, result, session,
                    attempt, session_infos, prev_session_infos, child, trayVars,
                    callbacks >>

\* send_toast up to the spawn of the child: the Toast is written to a
\* temporary file and `now-playing send-toast <path>` is started, or one of
\* these fails and `?` returns the error from command_run_notifer
SendToast ==
    /\ Running /\ pc = "toast"
    /\ \/ /\ child' = "started"
          /\ pc' = "wait"
          /\ UNCHANGED << loopState, result >>
       \/ /\ Abort("Failed to send toast")
          /\ UNCHANGED << child, pc >>
    /\ UNCHANGED << muted, config, configFile, queue, session, attempt,
                    session_infos, idx, prev_session_infos, detected, toast,
                    trayVars, callbacks >>

\* send_toast returns without waiting for the child to exit
ToastDoneNoWait ==
    /\ Running /\ pc = "wait"
    /\ toast' = None
    /\ Continue
    /\ UNCHANGED << muted, config, configFile, queue, loopState, result, session, attempt,
                    session_infos, prev_session_infos, detected, child, trayVars,
                    callbacks >>

\* child.wait() returns once the child has exited; its exit status is not
\* looked at. The Toast was moved into send_toast, and the for loop goes on
ToastDone ==
    /\ Running /\ pc = "wait" /\ child = "exited"
    /\ child' = "none"
    /\ toast' = None
    /\ Continue
    /\ UNCHANGED << muted, config, configFile, queue, loopState, result, session, attempt,
                    session_infos, prev_session_infos, detected, trayVars,
                    callbacks >>

\* the snapshots of disabled sources are not remembered
EndPassForgetsDisabled ==
    /\ Running /\ pc = "iterate" /\ idx > Len(session_infos)
    /\ LET Kept(x) == \A e \in 1..Len(config) :
                          config[e] # << x.source_app_user_mode_id, FALSE >>
       IN  prev_session_infos' = SelectSeq(session_infos, Kept)
    /\ session_infos' = << >>
    /\ detected' = << >>
    /\ idx' = 0
    /\ pc' = "recv"
    /\ muted' = Recorded(muted, session_infos, config)
    /\ UNCHANGED << config, configFile, queue, loopState, result, session, attempt,
                    toast, child, trayVars, callbacks >>

\* only the snapshots found new are remembered
EndPassKeepsDetected ==
    /\ Running /\ pc = "iterate" /\ idx > Len(session_infos)
    /\ prev_session_infos' = detected
    /\ session_infos' = << >>
    /\ detected' = << >>
    /\ idx' = 0
    /\ pc' = "recv"
    /\ muted' = Recorded(muted, session_infos, config)
    /\ UNCHANGED << config, configFile, queue, loopState, result, session, attempt,
                    toast, child, trayVars, callbacks >>

\* prev_session_infos = session_infos, after the for loop
EndPass ==
    /\ Running /\ pc = "iterate" /\ idx > Len(session_infos)
    /\ prev_session_infos' = session_infos
    /\ session_infos' = << >>
    /\ detected' = << >>
    /\ idx' = 0
    /\ pc' = "recv"
    /\ muted' = Recorded(muted, session_infos, config)
    /\ UNCHANGED << config, configFile, queue, loopState, result, session, attempt,
                    toast, child, trayVars, callbacks >>

\* the serialized config is appended to what the file holds
RecvConfigChangedAppend ==
    /\ Running /\ pc = "recv" /\ queue # << >> /\ Received(queue) = "ConfigChanged"
    /\ queue' = Tail(queue)
    /\ \/ /\ configFile' = [exists |-> TRUE,
                             text |-> configFile.text \o ToStringPretty(config)]
          /\ UNCHANGED << loopState, result >>
       \/ /\ configFile' \in {configFile, CorruptFile}
          /\ Abort("Failed to write config")
    /\ UNCHANGED << muted, config, pc, session, attempt, session_infos, idx,
                    prev_session_infos, detected, toast, child, trayVars, callbacks >>

\* Event::ConfigChanged: create_dir_all and fs::write of the serialized
\* config; a failure of either returns the error from command_run_notifer,
\* and a failed write may leave the file as it was or truncated
RecvConfigChanged ==
    /\ Running /\ pc = "recv" /\ queue # << >> /\ Received(queue) = "ConfigChanged"
    /\ queue' = Tail(queue)
    /\ \/ /\ configFile' = Serialize(config)
          /\ UNCHANGED << loopState, result >>
       \/ /\ configFile' \in {configFile, CorruptFile}
          /\ Abort("Failed to write config")
    /\ UNCHANGED << muted, config, pc, session, attempt, session_infos, idx,
                    prev_session_infos, detected, toast, child, trayVars, callbacks >>

\* Quit is dropped and the loop goes on
RecvQuitIgnored ==
    /\ Running /\ pc = "recv" /\ queue # << >> /\ Received(queue) = "Quit"
    /\ queue' = Tail(queue)
    /\ UNCHANGED << muted, config, configFile, loopState, result, pc, session, attempt,
                    session_infos, idx, prev_session_infos, detected, toast, child,
                    trayVars, callbacks >>

\* Event::Quit: break, and command_run_notifer returns Ok(())
RecvQuit ==
    /\ Running /\ pc = "recv" /\ queue # << >> /\ Received(queue) = "Quit"
    /\ queue' = Tail(queue)
    /\ loopState' = "Terminated"
    /\ result' = "Ok"
    /\ UNCHANGED << muted, config, configFile, pc, session, attempt,
                    session_infos, idx, prev_session_infos, detected, toast, child,
                    trayVars, callbacks >>

----------------------------------------------------------------------------
(* The child process: command_send_toast *)

\* the toast document is built and toast_notifier.Show succeeds
ChildShow ==
    /\ Running /\ child = "started"
    /\ child' = "shown"
    /\ UNCHANGED << config, configFile, queue, loopState, result, loopVars,
                    trayVars, callbacks >>

\* any step up to and including Show fails: the child exits with an error status
ChildFail ==
    /\ Running /\ child = "started"
    /\ child' = "exited"
    /\ UNCHANGED << config, configFile, queue, loopState, result, loopVars,
                    trayVars, callbacks >>

\* tokio::time::sleep(toast.duration) has elapsed and toast_notifier.Hide is
\* called; the child exits, with an error status when Hide failed
ChildHide ==
    /\ Running /\ child = "shown"
    /\ child' = "exited"
    /\ UNCHANGED << config, configFile, queue, loopState, result, loopVars,
                    trayVars, callbacks >>

----------------------------------------------------------------------------
(* The tray thread: windows_thread, update_menu, wndproc *)

\* the tray and the provider are bounded to a queue of MaxQueue events
CanSend(n) == Len(queue) + n <= MaxQueue

\* n copies of e
Repeat(e, n) == [j \in 1..n |-> e]

\* the entry after the one the index names is flipped
ToggleOffByOne(srcs, i) ==
    IF i + 1 < Len(srcs)
    THEN [srcs EXCEPT ![i + 2] = << @[1], ~@[2] >>]
    ELSE srcs

\* the entry is set to disabled, whatever it was
ToggleOff(srcs, i) ==
    IF i < Len(srcs)
    THEN [srcs EXCEPT ![i + 1] = << @[1], FALSE >>]
    ELSE srcs

\* sources.get_mut(i) and *enabled = !*enabled, i counted from 0
Toggle(srcs, i) ==
    IF i < Len(srcs)
    THEN [srcs EXCEPT ![i + 1] = << @[1], ~@[2] >>]
    ELSE srcs

\* the window, the popup menu and the tray icon are created, or one of them
\* fails and windows_thread returns its error to the closure thread::spawn
\* runs: the thread ends, and its JoinHandle was dropped by main
TrayStart ==
    /\ Running /\ tray = "starting"
    /\ tray' \in {"running", "failed"}
    /\ UNCHANGED << config, configFile, queue, loopState, result, loopVars, child,
                    menuOpen, menuItems, callbacks >>

\* WM_TRAYICON with WM_RBUTTONUP: update_menu rebuilds the source items from
\* the config and TrackPopupMenu shows the menu
TrayOpenMenu ==
    /\ Running /\ tray = "running" /\ ~menuOpen
    /\ menuItems' = config
    /\ menuOpen' = TRUE
    /\ UNCHANGED << config, configFile, queue, loopState, result, loopVars, child,
                    tray, callbacks >>

\* the menu is closed without a command
TrayDismiss ==
    /\ Running /\ tray = "running" /\ menuOpen
    /\ menuOpen' = FALSE
    /\ menuItems' = << >>
    /\ UNCHANGED << config, configFile, queue, loopState, result, loopVars, child,
                    tray, callbacks >>

\* WM_COMMAND with j >= ID_TRAY_SOURCES_START, i = j - ID_TRAY_SOURCES_START:
\* the user picks source item i of the menu
TrayToggle(i) ==
    /\ Running /\ tray = "running" /\ menuOpen /\ CanSend(1)
    /\ i < Len(menuItems)
    /\ config' = Toggle(config, i)
    /\ queue' = Send(queue, "ConfigChanged")
    /\ menuOpen' = FALSE
    /\ menuItems' = << >>
    /\ UNCHANGED << configFile, loopState, result, loopVars, child, tray,
                    callbacks >>

\* the registry is cleared and no event is sent
TrayClearSilent ==
    /\ Running /\ tray = "running" /\ menuOpen /\ CanSend(1)
    /\ config' = << >>
    /\ menuOpen' = FALSE
    /\ menuItems' = << >>
    /\ UNCHANGED << configFile, queue, loopState, result, loopVars, child, tray,
                    callbacks >>

\* only the enabled entries are removed
TrayClearKeepsDisabled ==
    /\ Running /\ tray = "running" /\ menuOpen /\ CanSend(1)
    /\ LET Disabled(e) == ~e[2] IN config' = SelectSeq(config, Disabled)
    /\ queue' = Send(queue, "ConfigChanged")
    /\ menuOpen' = FALSE
    /\ menuItems' = << >>
    /\ UNCHANGED << configFile, loopState, result, loopVars, child, tray,
                    callbacks >>

\* WM_COMMAND with ID_TRAY_CLEAR_KNOWN
TrayClear ==
    /\ Running /\ tray = "running" /\ menuOpen /\ CanSend(1)
    /\ config' = << >>
    /\ queue' = Send(queue, "ConfigChanged")
    /\ menuOpen' = FALSE
    /\ menuItems' = << >>
    /\ UNCHANGED << configFile, loopState, result, loopVars, child, tray,
                    callbacks >>

\* WM_COMMAND with ID_TRAY_EXIT: the icon is deleted, PostQuitMessage ends
\* the tray thread's message loop and Quit is sent
TrayExit ==
    /\ Running /\ tray = "running" /\ menuOpen /\ CanSend(1)
    /\ queue' = Send(queue, "Quit")
    /\ menuOpen' = FALSE
    /\ menuItems' = << >>
    /\ tray' = "stopped"
    /\ UNCHANGED << config, configFile, loopState, result, loopVars, child,
                    callbacks >>

\* WM_DESTROY: PostQuitMessage and Quit
WmDestroy ==
    /\ Running /\ tray = "running" /\ CanSend(1)
    /\ queue' = Send(queue, "Quit")
    /\ menuOpen' = FALSE
    /\ menuItems' = << >>
    /\ tray' = "stopped"
    /\ UNCHANGED << config, configFile, loopState, result, loopVars, child,
                    callbacks >>

----------------------------------------------------------------------------
(* The provider's callbacks *)

\* the SessionsChanged handler registered at startup
SessionsChanged ==
    /\ Running /\ pc # "start" /\ CanSend(1)
    /\ queue' = Send(queue, "Update")
    /\ UNCHANGED << config, configFile, loopState, result, loopVars, child,
                    trayVars, callbacks >>

\* session k's media properties change: each handler registered on it sends
\* one Update
MediaPropertiesChanged(k) ==
    /\ Running /\ callbacks[k] > 0 /\ CanSend(callbacks[k])
    /\ queue' = queue \o Repeat("Update", callbacks[k])
    /\ UNCHANGED << config, configFile, loopState, result, loopVars, child,
                    trayVars, callbacks >>

----------------------------------------------------------------------------
Next ==
    \/ Startup
    \/ RecvUpdate
    \/ Subscribe
    \/ AttemptOk
    \/ AttemptErr
    \/ Check
    \/ SendToast
    \/ ToastDone
    \/ EndPass
    \/ RecvConfigChanged
    \/ RecvQuit
    \/ ChildShow
    \/ ChildFail
    \/ ChildHide
    \/ TrayStart
    \/ TrayOpenMenu
    \/ TrayDismiss
    \/ \E i \in 0..(Len(menuItems) - 1) : TrayToggle(i)
    \/ TrayClear
    \/ TrayExit
    \/ WmDestroy
    \/ SessionsChanged
    \/ \E k \in 1..MaxHandlers : MediaPropertiesChanged(k)

Spec == Init /\ [][Next]_vars

\* the steps of the loop thread
LoopNext ==
    \/ Startup \/ RecvUpdate \/ Subscribe \/ AttemptOk \/ AttemptErr \/ Check
    \/ SendToast \/ ToastDone \/ EndPass \/ RecvConfigChanged \/ RecvQuit

\* the steps of the send-toast child process
ChildNext == ChildShow \/ ChildFail \/ ChildHide

\* the loop thread and the child process keep running while they can: the
\* tokio runtime polls the loop's future until it returns, and the child's
\* sleep elapses
Fairness == WF_vars(LoopNext) /\ WF_vars(ChildNext)

\* the first run of the program: there is no config.json yet
FirstRunInit == Init /\ configFile = NoFile

FirstRunSpec == FirstRunInit /\ [][Next]_vars /\ Fairness

\* the program with the history of the states recorded for disabled sources
HistoryInit == Start /\ muted = Some({})

HistorySpec == HistoryInit /\ [][Next]_vars

----------------------------------------------------------------------------
(* Vocabulary of the properties *)

\* the loop thread takes a step
LoopStep == << loopVars, loopState, result >>' # << loopVars, loopState, result >>

\* the registry holds a disabled entry for the source
EntryDisabled(srcs, source) == \E j \in 1..Len(srcs) : srcs[j] = << source, FALSE >>

\* the registry holds an entry for the source
Known(srcs, source) == \E j \in 1..Len(srcs) : srcs[j][1] = source

\* the elements of current whose identity matches no element of previous, in
\* the order of current
DetectNew(current, previous) ==
    LET IsNew(s) == \A j \in 1..Len(previous) : Identity(previous[j]) # Identity(s)
    IN  SelectSeq(current, IsNew)

\* the for loop over session_infos is running
InForLoop == pc \in {"iterate", "toast", "wait"}

\* how many elements of session_infos the for loop has decided about
Decided == IF pc = "iterate" THEN idx - 1 ELSE idx

\* the loop takes an event from the queue
Receive == pc = "recv" /\ Len(queue') < Len(queue)

\* the loop spawns the child that shows the Toast
Dispatch == pc = "toast" /\ pc' = "wait"

----------------------------------------------------------------------------
(* C1. Disabled suppression *)

----------------------------------------------------------------------------
(* C2. New-source default *)

\* the for loop is at a snapshot that is new and whose source is unknown
AtUnknownSource ==
    /\ pc = "iterate" /\ idx <= Len(session_infos)
    /\ \A j \in 1..Len(prev_session_infos) :
          Identity(prev_session_infos[j]) # Identity(session_infos[idx])
    /\ ~Known(config, session_infos[idx].source_app_user_mode_id)

\* C2: when a pass finds a new snapshot of a source that is not in the
\* registry, the source is appended enabled, ConfigChanged is enqueued, and the
\* next thing the loop does is to call send_toast for that snapshot.
NewSourceDefault ==
    [][ /\ (AtUnknownSource /\ LoopStep) =>
            /\ config' = Append(config, << session_infos[idx].source_app_user_mode_id, TRUE >>)
            /\ queue' = Append(queue, "ConfigChanged")
            /\ pc' = "toast" /\ idx' = idx /\ session_infos' = session_infos
            /\ toast' # None
            /\ toast'[1].source_app_user_mode_id
                 = session_infos[idx].source_app_user_mode_id
        /\ (pc = "toast" /\ LoopStep) =>
            \/ Dispatch /\ child' = "started" /\ toast' = toast /\ idx' = idx
            \/ result' = "Failed to send toast"
      ]_vars

\* a source that the config file did not hold was registered enabled in the
\* first pass and the child showing its notification has been started
NewSourceNotified ==
    /\ pc = "wait" /\ child = "started"
    /\ configFile = NoFile
    /\ prev_session_infos = << >>
    /\ config = << << session_infos[idx].source_app_user_mode_id, TRUE >> >>
    /\ queue = << "ConfigChanged", "ConfigChanged" >>
    /\ toast[1].source_app_user_mode_id = session_infos[idx].source_app_user_mode_id

----------------------------------------------------------------------------
(* C3. Change detection *)

\* C3: the snapshots a pass treats as new are the elements of the enumerated
\* list whose identity matches no element of the previous list, in the order
\* of the enumerated list; a notification is only ever built for one of them.
ChangeDetection ==
    InForLoop =>
        /\ detected = DetectNew(SubSeq(session_infos, 1, Decided), prev_session_infos)
        /\ pc \in {"toast", "wait"} =>
              /\ detected # << >>
              /\ detected[Len(detected)] = session_infos[idx]

\* a pass went through a list of which the previous list held a state of the
\* same source with another identity: that snapshot was treated as new
DetectedAgainstPrevious ==
    /\ pc = "iterate" /\ idx = Len(session_infos) + 1
    /\ prev_session_infos # << >>
    /\ detected # << >>
    /\ \E j \in 1..Len(prev_session_infos) :
          /\ prev_session_infos[j].source_app_user_mode_id
               = detected[1].source_app_user_mode_id
          /\ prev_session_infos[j].title # detected[1].title

----------------------------------------------------------------------------
(* C4. Thumbnail-insensitivity *)

\* the two snapshots agree on everything but the thumbnail
ThumbnailOnly(a, b) ==
    /\ a.source_app_user_mode_id = b.source_app_user_mode_id
    /\ a.title = b.title
    /\ a.subtitle = b.subtitle
    /\ a.artist = b.artist
    /\ a.album_title = b.album_title
    /\ a.thumbnail # b.thumbnail

\* C4: a snapshot that differs from a snapshot of the previous list in its
\* thumbnail only is not treated as new and gets no notification.
ThumbnailInsensitive ==
    InForLoop =>
        \A p \in 1..Len(session_infos), j \in 1..Len(prev_session_infos) :
            (p <= Decided /\ ThumbnailOnly(session_infos[p], prev_session_infos[j])) =>
                /\ \A d \in 1..Len(detected) : detected[d] # session_infos[p]
                /\ (pc \in {"toast", "wait"} => p # idx)

\* a pass went through a list that differs from the previous list in a
\* thumbnail only, and found nothing new
ThumbnailChangeIgnored ==
    /\ pc = "iterate" /\ idx = 2 /\ Len(session_infos) = 1
    /\ Len(prev_session_infos) = 1
    /\ ThumbnailOnly(session_infos[1], prev_session_infos[1])
    /\ detected = << >>
    /\ toast = None /\ child = "none"

----------------------------------------------------------------------------
(* C5. The previous list is replaced by the enumerated list *)

\* C5: a pass ends by making the previous list the whole list it enumerated,
\* the snapshots of disabled sources included, and the previous list changes
\* at no other time; a snapshot whose identity is in the previous list is not
\* treated as new.
PreviousReplaced ==
    [][ /\ (pc = "iterate" /\ pc' = "recv") => prev_session_infos' = session_infos
        /\ prev_session_infos' # prev_session_infos => (pc = "iterate" /\ pc' = "recv")
        /\ ( /\ pc = "iterate" /\ idx <= Len(session_infos) /\ LoopStep
             /\ \E j \in 1..Len(prev_session_infos) :
                   Identity(prev_session_infos[j]) = Identity(session_infos[idx]) ) =>
            /\ detected' = detected
            /\ pc' = "iterate" /\ idx' = idx + 1
            /\ toast' = None
      ]_vars

\* a pass has ended and remembers its two snapshots, the one of a disabled
\* source and the one of an enabled source
DisabledRemembered ==
    /\ pc = "recv" /\ Running
    /\ Len(prev_session_infos) = 2
    /\ EntryDisabled(config, prev_session_infos[1].source_app_user_mode_id)
    /\ ~EntryDisabled(config, prev_session_infos[2].source_app_user_mode_id)

----------------------------------------------------------------------------
(* C6. A failed notification *)

\* C6 as stated: when send_toast fails, the loop stays Running.
PresenterFailureNotFatal == result = "Failed to send toast" => loopState = "Running"

----------------------------------------------------------------------------
(* C7. A failed config write *)

\* C7 as stated: when the config write fails, the loop stays Running.
PersistenceFailureNotFatal == result = "Failed to write config" => loopState = "Running"

----------------------------------------------------------------------------
(* C8. Retries of a session's metadata read *)

\* session_infos grew by one snapshot
Pushed == /\ Len(session_infos') = Len(session_infos) + 1
          /\ SubSeq(session_infos', 1, Len(session_infos)) = session_infos

\* C8: a failed metadata read is tried again while fewer than 20 attempts were
\* made; the first success pushes the snapshot and ends the retries; after the
\* 20th failure the session is left out, the snapshots read so far stay, and
\* get_session_infos goes on with the next session or returns its list.
RetryIsolation ==
    [][ (pc = "attempt" /\ LoopStep) =>
            /\ attempt < 20
            /\ loopState' = "Running" /\ result' = "none"
            /\ \/ /\ Pushed
                  /\ pc' \in {"subscribe", "iterate"}
               \/ /\ session_infos' = session_infos
                  /\ IF attempt < 19
                     THEN pc' = "attempt" /\ attempt' = attempt + 1 /\ session' = session
                     ELSE pc' \in {"subscribe", "iterate"}
      ]_vars

\* the first pass had two sessions, one of them failed all its attempts and is
\* left out, the other one's snapshot is in the list
SessionOmitted ==
    /\ pc = "iterate" /\ idx = 1 /\ Running
    /\ callbacks[1] = 1 /\ callbacks[2] = 1
    /\ Len(session_infos) = 1

----------------------------------------------------------------------------
(* C9. Registry mutations and persistence *)

\* C9 as stated, at the end of a run: once the loop has ended on Quit, every
\* mutation of the registry has been written, so the config file loads to the
\* registry.
PersistedAtQuit ==
    (loopState = "Terminated" /\ result = "Ok") => LoadConfig(configFile) = config

\* C9 amended: every change of the registry (registration, toggle, clear)
\* enqueues ConfigChanged in the same step; building the menu and a lookup
\* that registers nothing enqueue nothing; handling ConfigChanged writes the
\* registry as it is then; and while the loop runs, a registry that the
\* config file does not hold has a ConfigChanged in the queue. Whether that
\* event is handled is not guaranteed: the loop may end first.
MutationsSignalDirty ==
    /\ [](Running /\ LoadConfig(configFile) # config =>
            \E j \in 1..Len(queue) : queue[j] = "ConfigChanged")
    /\ [][ /\ config' # config => queue' = Append(queue, "ConfigChanged")
           /\ (menuOpen' /\ ~menuOpen) => (queue' = queue /\ config' = config)
           /\ (pc = "iterate" /\ LoopStep /\ config' = config) => queue' = queue
           /\ (Receive /\ Head(queue) = "ConfigChanged") =>
                 \/ configFile' = Serialize(config)
                 \/ result' = "Failed to write config"
           /\ configFile' # configFile => (Receive /\ Head(queue) = "ConfigChanged")
        ]_vars

\* the tray enabled a source that the config file held disabled, and the loop
\* has written the registry with that change
ToggleWritten ==
    /\ Running
    /\ config = << << "app.b", TRUE >>, << "app.a", TRUE >> >>
    /\ configFile = Serialize(config)

----------------------------------------------------------------------------
(* C10. Sequential FIFO processing *)

\* C10: the queue changes only by events appended at its end or by the loop,
\* waiting in recv, taking its head; the handler that runs is the head's;
\* during an Update pass nothing is taken from the queue and the config file
\* is not written, and a pass starts only from recv, after the pass before
\* it has ended.
SequentialFifo ==
    [][ /\ queue' # queue =>
            \/ /\ Len(queue') > Len(queue)
                  /\ SubSeq(queue', 1, Len(queue)) = queue
            \/ Receive /\ queue' = Tail(queue)
        /\ Receive =>
            /\ Head(queue) = "Update" =>
                  /\ configFile' = configFile
                  /\ \/ pc' \in {"subscribe", "iterate"} /\ session_infos' = << >>
                     \/ result' = "Can not get session infos"
            /\ Head(queue) = "ConfigChanged" =>
                  /\ pc' = "recv"
                  /\ \/ configFile' = Serialize(config) /\ loopState' = "Running"
                     \/ result' = "Failed to write config"
            /\ Head(queue) = "Quit" =>
                  /\ pc' = "recv" /\ configFile' = configFile
                  /\ loopState' = "Terminated" /\ result' = "Ok"
        /\ pc \notin {"start", "recv"} =>
            /\ configFile' = configFile
            /\ Len(queue') >= Len(queue)
            /\ pc' # "start"
        /\ (pc = "recv" /\ pc' # "recv") => (Receive /\ Head(queue) = "Update")
      ]_vars

\* a registration in the first pass has enqueued ConfigChanged behind the one
\* of the startup; the pass is still running, showing the notification, and
\* the config file is not yet written
WriteWaitsForPass ==
    /\ pc = "wait" /\ child = "shown"
    /\ config # << >>
    /\ configFile = NoFile
    /\ queue = << "ConfigChanged", "ConfigChanged" >>

----------------------------------------------------------------------------
(* C11. One notification in flight *)

\* C11: a send-toast child runs only while the loop waits for it in send_toast;
\* the loop starts a child only when no child is left from an earlier
\* dispatch, and leaves send_toast only when the child has exited; within a
\* child, Hide comes only after Show succeeded: the child goes from started
\* to shown (Show) and from shown to exited (the duration elapsed, Hide), or
\* from started to exited when it failed before showing anything.
OneInFlight ==
    /\ [](child # "none" => (pc = "wait" /\ Running))
    /\ [][ /\ Dispatch => (child = "none" /\ child' = "started")
           /\ (pc = "wait" /\ LoopStep) =>
                 (child = "exited" /\ child' = "none" /\ pc' = "iterate")
           /\ child' # child =>
                 \/ Dispatch
                 \/ child = "started" /\ child' \in {"shown", "exited"}
                 \/ child = "shown" /\ child' = "exited"
                 \/ child = "exited" /\ child' = "none" /\ pc = "wait"
        ]_vars

\* the first pass found two new sources; the notification of the first has
\* been dispatched and is over, and the notification of the second is on
\* screen
SecondDispatch ==
    /\ pc = "wait" /\ idx = 2 /\ child = "shown"
    /\ configFile = NoFile /\ prev_session_infos = << >>
    /\ Len(detected) = 2
    /\ Len(config) = 2 /\ config[1][2] /\ config[2][2]
    /\ toast = Some(MakeToast(session_infos[2]))

----------------------------------------------------------------------------
(* C12. Clear-known resets detection *)

\* the config file holds the source disabled and the registry, emptied by a
\* clear since then, holds no entry for it
ClearedDisabled(source) ==
    /\ EntryDisabled(LoadConfig(configFile), source)
    /\ ~Known(config, source)

\* the for loop is at a snapshot of a source that was known and disabled
\* before the registry was cleared
AtClearedSource ==
    /\ pc = "iterate" /\ idx <= Len(session_infos)
    /\ ClearedDisabled(session_infos[idx].source_app_user_mode_id)

\* C12 as stated: when a pass observes a source that was known and disabled
\* before a clear, the source is registered again enabled and the loop goes on
\* to send its notification.
ClearResetsDetection ==
    [][ (AtClearedSource /\ LoopStep) =>
            /\ config' = Append(config, << session_infos[idx].source_app_user_mode_id, TRUE >>)
            /\ pc' = "toast"
      ]_vars

\* C12 amended: the registry loses entries only by the tray's clear, which
\* empties it and enqueues ConfigChanged; when a pass then observes a source
\* that was known and disabled before the clear, with a snapshot whose
\* identity is not in the previous list, the source is registered again
\* enabled, ConfigChanged is enqueued and the loop goes on to send the
\* notification of that snapshot; a snapshot whose identity is in the previous
\* list is skipped as unchanged, and the source stays unregistered.
ClearResetsDetectionOfNew ==
    [][ /\ Len(config') < Len(config) =>
            /\ config' = << >>
            /\ menuOpen /\ ~menuOpen'
            /\ queue' = Append(queue, "ConfigChanged")
        /\ (AtClearedSource /\ LoopStep) =>
            IF \E j \in 1..Len(prev_session_infos) :
                  Identity(prev_session_infos[j]) = Identity(session_infos[idx])
            THEN /\ config' = config /\ queue' = queue
                 /\ pc' = "iterate" /\ idx' = idx + 1 /\ toast' = None
            ELSE /\ config' = Append(config,
                                     << session_infos[idx].source_app_user_mode_id, TRUE >>)
                 /\ queue' = Append(queue, "ConfigChanged")
                 /\ pc' = "toast" /\ idx' = idx
                 /\ toast' = Some(MakeToast(session_infos[idx]))
        /\ (pc = "toast" /\ LoopStep /\ ~Dispatch) => result' = "Failed to send toast"
      ]_vars

\* the config file holds app.a disabled; the registry was cleared during a
\* pass, the pass then found a new state of app.a, registered it enabled as
\* the only entry and is sending its notification
ClearedSourceRenotified ==
    /\ pc \in {"toast", "wait"}
    /\ EntryDisabled(LoadConfig(configFile), "app.a")
    /\ config = << << "app.a", TRUE >> >>
    /\ toast = Some(MakeToast(session_infos[idx]))
    /\ session_infos[idx].source_app_user_mode_id = "app.a"

----------------------------------------------------------------------------
(* C13. Quit stops the loop *)

\* C13: the loop takes Quit only while it waits in recv, with no child left
\* running; taking it makes the loop Terminated with result Ok and changes
\* neither the registry nor the config file; once the loop is Terminated
\* nothing changes any more, whatever the queue still holds: no event is
\* taken, no child is started, the config file is not written. Sending Quit
\* leaves the loop and a running child as they are.
QuitStops ==
    [][ /\ (Receive /\ Head(queue) = "Quit") =>
            /\ loopState' = "Terminated" /\ result' = "Ok"
            /\ child = "none" /\ child' = "none"
            /\ configFile' = configFile /\ config' = config
            /\ loopVars' = loopVars
        /\ loopState = "Terminated" => vars' = vars
        /\ queue' = Append(queue, "Quit") =>
            /\ child' = child
            /\ << loopVars, loopState, result >>' = << loopVars, loopState, result >>
      ]_vars

\* the loop has ended on Quit while a ConfigChanged, enqueued behind Quit by
\* a registration of the last pass, is still in the queue: the config file
\* does not hold that registration
QuitLeavesQueued ==
    /\ loopState = "Terminated" /\ result = "Ok"
    /\ queue = << "ConfigChanged" >>
    /\ LoadConfig(configFile) # config
    /\ child = "none"

----------------------------------------------------------------------------
(* C14. Startup seeding *)

\* C14: the startup of the loop, when it succeeds, appends one Update and
\* then one ConfigChanged to the queue and goes to recv; from then on, while
\* the loop runs and the config file is absent, a ConfigChanged is in the
\* queue; and an absent config file is eventually written, unless the loop
\* ends first (on an error or on Quit).
StartupSeeding ==
    /\ [][ (pc = "start" /\ pc' # "start") =>
              /\ queue' = queue \o << "Update", "ConfigChanged" >>
              /\ pc' = "recv"
              /\ configFile' = configFile /\ config' = config
         ]_vars
    /\ []((Running /\ pc # "start" /\ configFile = NoFile) =>
              \E j \in 1..Len(queue) : queue[j] = "ConfigChanged")
    /\ ((pc # "start" /\ configFile = NoFile) ~> (configFile # NoFile \/ ~Running))

\* no config file existed, the first pass enumerated no session and changed
\* nothing, the tray has not acted, and the config file has been written with
\* the empty registry
FileEstablished ==
    /\ Running /\ pc = "recv" /\ queue = << >>
    /\ tray = "starting"
    /\ Registered(callbacks, MaxHandlers) = 0
    /\ prev_session_infos = << >>
    /\ config = << >>
    /\ configFile = Serialize(<< >>)

----------------------------------------------------------------------------
(* C15. Startup failures *)

\* C15 as stated: when the session manager cannot be obtained, or the tray
\* window or icon cannot be created, the process comes to an end with an
\* error.
StartupFailuresFatal ==
    /\ [][ (pc = "start" /\ LoopStep /\ pc' = "start") =>
              (loopState' = "Terminated" /\ result' \notin {"none", "Ok"}) ]_vars
    /\ (tray = "failed" ~> (loopState = "Terminated" /\ result \notin {"none", "Ok"}))

----------------------------------------------------------------------------
(* C16. Line composition *)

\* C16: the Toast the loop holds is built from the snapshot the for loop is
\* at: line_1 is the title when the subtitle is empty, and otherwise the
\* title, then space, en dash, space, then the subtitle; line_2 is the album
\* title, line_3 the artist; the source and the thumbnail are the snapshot's.
LineComposition ==
    toast # None =>
        LET s == session_infos[idx]
            t == toast[1]
        IN  /\ pc \in {"toast", "wait"}
            /\ s.subtitle = << >> => t.line_1 = s.title
            /\ s.subtitle # << >> =>
                  /\ Len(t.line_1) = Len(s.title) + 3 + Len(s.subtitle)
                  /\ SubSeq(t.line_1, 1, Len(s.title)) = s.title
                  /\ SubSeq(t.line_1, Len(s.title) + 1, Len(s.title) + 3)
                       = << " ", "U+2013", " " >>
                  /\ SubSeq(t.line_1, Len(s.title) + 4, Len(t.line_1)) = s.subtitle
            /\ t.line_2 = s.album_title
            /\ t.line_3 = s.artist
            /\ t.source_app_user_mode_id = s.source_app_user_mode_id
            /\ t.thumbnail = s.thumbnail
            /\ t.line_1 \in { << "Song" >>, << "Tune", " ", "U+2013", " ", "Live" >> }

\* the notification on screen was built from a snapshot with title Tune and
\* subtitle Live
SubtitleJoined ==
    /\ pc = "wait" /\ child = "shown"
    /\ session_infos[idx].title = << "Tune" >>
    /\ session_infos[idx].subtitle = << "Live" >>
    /\ toast[1].line_1 = << "Tune", " ", "U+2013", " ", "Live" >>
    /\ toast[1].line_2 = << "Album" >>
    /\ toast[1].line_3 = << "Artist" >>

----------------------------------------------------------------------------
(* C17. Config round-trip *)

\* C17: every registry the program holds, written and read back, is the same
\* list, in the same order and with the same flags; a successful handling of
\* ConfigChanged leaves in the file the text of the registry and nothing
\* else, whatever the file held before, and that file loads to the registry;
\* and the registry the program starts with is what the file it found loads
\* to.
ConfigRoundTrip ==
    /\ [](/\ FromStr(ToStringPretty(config)) = Some(config)
          /\ LoadConfig(Serialize(config)) = config)
    /\ []((pc = "start" /\ tray = "starting") => config = LoadConfig(configFile))
    /\ [][ (Receive /\ Head(queue) = "ConfigChanged" /\ result' = "none") =>
              /\ configFile'.exists
              /\ configFile'.text = ToStringPretty(config)
              /\ LoadConfig(configFile') = config
              /\ config' = config
         ]_vars

\* the file written holds app.a enabled before app.b disabled, as the
\* registry does, and loads to that list
RoundTripped ==
    /\ config = << << "app.a", TRUE >>, << "app.b", FALSE >> >>
    /\ configFile.exists
    /\ configFile.text =
          << Punct("{"), Str("sources"), Punct(":"), Punct("["),
             Punct("["), Str("app.a"), Punct(","), Bool(TRUE), Punct("]"), Punct(","),
             Punct("["), Str("app.b"), Punct(","), Bool(FALSE), Punct("]"),
             Punct("]"), Punct("}") >>
    /\ LoadConfig(configFile) = config

----------------------------------------------------------------------------
(* C18. Ownership of the registry *)

\* C18 as stated: the registry changes only in steps of the loop thread.
ExclusiveOwnership == [][config' # config => LoopStep]_vars

----------------------------------------------------------------------------
(* C19. Registration of the change callbacks *)

\* C19 as stated: no session ever has more than one MediaPropertiesChanged
\* handler registered.
BoundedCallbacks == \A k \in 1..MaxHandlers : callbacks[k] <= 1

----------------------------------------------------------------------------
(* C20. Registry uniqueness *)

\* no source has two entries
Unique(srcs) ==
    \A i, j \in 1..Len(srcs) : i # j => srcs[i][1] # srcs[j][1]

\* C20: no source has two entries in the registry, in any state; the
\* registry grows only by one entry appended at its end, for a source it did
\* not hold; it shrinks only by being emptied; and a step that keeps its
\* length keeps the source of every position.
RegistryUnique ==
    /\ [](Unique(config))
    /\ [][ /\ Len(config') > Len(config) =>
                /\ Len(config') = Len(config) + 1
                /\ SubSeq(config', 1, Len(config)) = config
                /\ ~Known(config, config'[Len(config')][1])
           /\ Len(config') < Len(config) => config' = << >>
           /\ Len(config') = Len(config) =>
                \A j \in 1..Len(config) : config'[j][1] = config[j][1]
         ]_vars

\* the config file holds app.b before app.a; the registry was cleared during
\* a pass, which then registered app.a and app.b in the order it saw them
RegisteredAfterClear ==
    /\ LoadConfig(configFile) = << << "app.b", TRUE >>, << "app.a", FALSE >> >>
    /\ config = << << "app.a", TRUE >>, << "app.b", TRUE >> >>
    /\ pc \in {"toast", "wait"} /\ idx = 2

----------------------------------------------------------------------------
(* C21. A toggle made before a pass *)

\* the tray handles a toggle command
ToggleStep ==
    /\ menuOpen /\ ~menuOpen'
    /\ queue' = Append(queue, "ConfigChanged")
    /\ config' # << >>

\* the for loop is at a snapshot that is not in the previous list
AtNewSnapshot ==
    /\ pc = "iterate" /\ idx <= Len(session_infos)
    /\ \A j \in 1..Len(prev_session_infos) :
          Identity(prev_session_infos[j]) # Identity(session_infos[idx])

\* C21: a toggle flips its entry in the registry in the step that handles the
\* command, not when its ConfigChanged is handled; a flag of the registry
\* changes in no other step; and every enablement decision of a pass is taken
\* on the registry as it is at the decision, which holds every toggle
\* completed before: a new snapshot of a source whose entry is disabled is
\* skipped, and for a new snapshot of a source whose entry is enabled the
\* loop goes on to send its notification.
ToggleBeforePass ==
    [][ /\ ToggleStep =>
            \E i \in 0..(Len(menuItems) - 1) :
                /\ i < Len(config)
                /\ config' = [config EXCEPT ![i + 1] = << config[i + 1][1], ~config[i + 1][2] >>]
        /\ ( /\ Len(config') = Len(config)
             /\ \E j \in 1..Len(config) : config'[j][2] # config[j][2] ) => ToggleStep
        /\ (AtNewSnapshot /\ LoopStep
              /\ EntryDisabled(config, session_infos[idx].source_app_user_mode_id)) =>
            /\ pc' = "iterate" /\ idx' = idx + 1
            /\ toast' = None /\ child' = child
            /\ config' = config
        /\ (AtNewSnapshot /\ LoopStep
              /\ Known(config, session_infos[idx].source_app_user_mode_id)
              /\ ~EntryDisabled(config, session_infos[idx].source_app_user_mode_id)) =>
            /\ pc' = "toast" /\ idx' = idx
            /\ toast' = Some(MakeToast(session_infos[idx]))
            /\ config' = config
      ]_vars

\* app.b, enabled in the config file the program started with, was toggled
\* off and the registry written before the pass began; the pass found a new
\* snapshot of app.b and went past it without a notification
ToggledOffSkipped ==
    /\ pc = "iterate" /\ idx = 2 /\ child = "none" /\ toast = None
    /\ detected = << session_infos[1] >>
    /\ session_infos[1].source_app_user_mode_id = "app.b"
    /\ config = << << "app.b", FALSE >>, << "app.a", FALSE >> >>
    /\ configFile = Serialize(config)

----------------------------------------------------------------------------
(* C22. Toggle index stability *)

\* C22: while the menu is on screen, every item of it is at the position of
\* the registry entry of the same source, whatever the loop has registered
\* since the menu was built; a toggle command for item i flips the entry of
\* the source shown at item i and leaves every other entry, the ones
\* registered since included, as it is; and a toggle with an index that is
\* not a position of the registry changes nothing.
IndexStable ==
    /\ [](menuOpen =>
            /\ Len(menuItems) <= Len(config)
            /\ \A j \in 1..Len(menuItems) : config[j][1] = menuItems[j][1])
    /\ [](\A i \in Len(config)..(Len(config) + 1) : Toggle(config, i) = config)
    /\ [][ ToggleStep =>
              \E i \in 0..(Len(menuItems) - 1) :
                  config' = [config EXCEPT
                                ![i + 1] = << menuItems[i + 1][1], ~config[i + 1][2] >>]
         ]_vars

\* the menu on screen was built when the registry held one source; a pass
\* has registered a second one since, and a toggle command for the item of
\* the menu can be handled now
MenuOlderThanRegistry ==
    /\ tray = "running" /\ menuOpen /\ Running
    /\ Len(queue) + 1 <= MaxQueue
    /\ Len(menuItems) = 1 /\ Len(config) = 2
    /\ menuItems[1][1] = config[1][1]

----------------------------------------------------------------------------
(* C23. No retroactive notification on re-enable *)

\* C23 as stated: once its source is enabled again, a state that a pass
\* recorded while the source was disabled gets no notification, until a pass
\* has observed a state of that source with another identity.
NoRetroactive ==
    [][ ( /\ pc = "iterate" /\ idx <= Len(session_infos) /\ LoopStep
          /\ muted # None /\ Identity(session_infos[idx]) \in muted[1]
          /\ Known(config, session_infos[idx].source_app_user_mode_id)
          /\ ~EntryDisabled(config, session_infos[idx].source_app_user_mode_id) ) =>
            (pc' = "iterate" /\ toast' = None)
      ]_vars

\* C23 amended: a pass that ends records the state of every source it has
\* enumerated, the disabled ones included; a snapshot whose identity is in
\* the previous list gets no notification, whatever its source's flag is by
\* then; so a state recorded while its source was disabled is notified after
\* the source is enabled again only by a pass that does not find its identity
\* in the previous list: the state is another one, or a pass in between did
\* not enumerate that state (the session was away, or its read failed 20
\* times) and the previous list has lost it.
NoRetroactiveWhileRecorded ==
    /\ [](pc \in {"toast", "wait"} =>
            \A j \in 1..Len(prev_session_infos) :
                Identity(prev_session_infos[j]) # Identity(session_infos[idx]))
    /\ [][ /\ (pc = "iterate" /\ pc' = "recv") =>
                \A j \in 1..Len(session_infos) :
                    EntryDisabled(config, session_infos[j].source_app_user_mode_id) =>
                        \E k \in 1..Len(prev_session_infos') :
                            Identity(prev_session_infos'[k]) = Identity(session_infos[j])
           /\ ( /\ pc = "iterate" /\ idx <= Len(session_infos) /\ LoopStep
                /\ muted # None /\ Identity(session_infos[idx]) \in muted[1]
                /\ \E j \in 1..Len(prev_session_infos) :
                      Identity(prev_session_infos[j]) = Identity(session_infos[idx]) ) =>
                /\ pc' = "iterate" /\ idx' = idx + 1
                /\ toast' = None /\ child' = child
                /\ config' = config /\ queue' = queue
         ]_vars

\* app.a "Song" was recorded while app.a was disabled; app.a was then
\* enabled, and the next pass observed the same state and went past it
\* without a notification
ReenabledNotRenotified ==
    /\ pc = "iterate" /\ idx = 2 /\ child = "none" /\ toast = None
    /\ muted # None /\ Identity(session_infos[1]) \in muted[1]
    /\ session_infos[1].source_app_user_mode_id = "app.a"
    /\ Identity(prev_session_infos[1]) = Identity(session_infos[1])
    /\ config = << << "app.b", TRUE >>, << "app.a", TRUE >> >>
    /\ detected = << >>

----------------------------------------------------------------------------
(* C24. Frame of the loop's handlers *)

\* C24: a step of the loop thread leaves every entry of the registry as it
\* is, and changes the registry only inside the for loop of an Update pass,
\* by appending the entry (source, true) of the snapshot it is at; handling
\* ConfigChanged changes neither the registry nor the previous list nor
\* anything else of the loop, and when it succeeds the file holds the text of
\* the registry as it is at that step, which loads to the registry.
HandlerFrame ==
    [][ /\ (LoopStep \/ Receive) =>
            /\ Len(config') >= Len(config)
            /\ \A j \in 1..Len(config) : config'[j] = config[j]
        /\ ((LoopStep \/ Receive) /\ config' # config) =>
            /\ pc = "iterate" /\ idx <= Len(session_infos)
            /\ config' = Append(config, << session_infos[idx].source_app_user_mode_id, TRUE >>)
        /\ (Receive /\ Head(queue) = "ConfigChanged") =>
            /\ config' = config
            /\ prev_session_infos' = prev_session_infos
            /\ loopVars' = loopVars
            /\ \/ /\ configFile' = [exists |-> TRUE, text |-> ToStringPretty(config)]
                  /\ LoadConfig(configFile') = config
                  /\ loopState' = "Running"
               \/ result' = "Failed to write config"
      ]_vars

\* the program started without a config file and the tray has not acted; a
\* pass has appended two enabled entries and recorded two snapshots, and the
\* ConfigChanged events have been handled: the file holds the registry
AppendedAndWritten ==
    /\ Running /\ pc = "recv" /\ queue = << >>
    /\ tray = "starting"
    /\ Len(config) = 2 /\ config[1][2] /\ config[2][2]
    /\ Len(prev_session_infos) = 2
    /\ configFile.text = ToStringPretty(config)
    /\ LoadConfig(configFile) = config

====
